---- MODULE Spec2Model ----
(***************************************************************************)
(* logranger: the concurrent ingestion pipeline of the server.            *)
(*                                                                         *)
(* The model follows server.go (the variant with ReloadConfig and the     *)
(* two-phase Config/Process action call, lines 126-371), the ruleset      *)
(* loader (NewRuleset), the action registry and the file action.          *)
(*                                                                         *)
(* Goroutines of the program are the processes of the model:              *)
(*   - main            New, Run/RunWithListener, the SIGHUP reload loop   *)
(*   - Listen          the accept loop                                    *)
(*   - HandleConnection one per accepted connection                       *)
(*   - processMessage  one per successfully parsed message                *)
(* A step of the model is one call that touches shared state or blocks.   *)
(***************************************************************************)
EXTENDS Integers, Sequences, FiniteSets, TLC

\* ------------------------------------------------------------------ bounds
\* connections accepted in one run
MaxConns == 2
\* messages parsed (dispatch tasks spawned) in one run
MaxMsgs == 2
\* SIGHUP reloads in one run
MaxReloads == 1
\* total number of tasks (connections + dispatches + reloads) and of faults
\* of the listener's side (PID file, Accept) in one run
MaxTasks == 3
\* rules in a rule file, where every rule file is tried
MaxRules == 2

\* ------------------------------------------------------------------ strings
\* Identifiers are sequences of ASCII codes, so that case folding is computed.
ID_r1 == <<114, 49>>
ID_R1 == <<82, 49>>
ID_r2 == <<114, 50>>
ID_r3 == <<114, 51>>
ID_r4 == <<114, 52>>
ID_r5 == <<114, 53>>
ID_r6 == <<114, 54>>

\* the ASCII part of the simple case folding used by strings.EqualFold
FoldChar(c) == IF c >= 65 /\ c <= 90 THEN c + 32 ELSE c

EqualFold(s, t) ==
    /\ Len(s) = Len(t)
    /\ \A i \in 1..Len(s) : FoldChar(s[i]) = FoldChar(t[i])

NoErr == "nil"

\* ------------------------------------------------------------------ config
\* A configuration source is what stands on disk when NewConfig reads it.
CfgMissing ==
    [exists |-> FALSE, loadable |-> FALSE, ptype |-> "", Timeout |-> 0, Extended |-> FALSE,
     Level |-> ""]
CfgBroken ==
    [exists |-> TRUE, loadable |-> FALSE, ptype |-> "", Timeout |-> 0, Extended |-> FALSE,
     Level |-> ""]
CfgBadParser ==
    [exists |-> TRUE, loadable |-> TRUE, ptype |-> "bogus", Timeout |-> 500, Extended |-> FALSE,
     Level |-> "info"]
CfgA ==
    [exists |-> TRUE, loadable |-> TRUE, ptype |-> "rfc3164", Timeout |-> 500, Extended |-> FALSE,
     Level |-> "info"]
CfgB ==
    [exists |-> TRUE, loadable |-> TRUE, ptype |-> "rfc5424", Timeout |-> 100, Extended |-> TRUE,
     Level |-> "debug"]

ConfigSources == {CfgMissing, CfgBroken, CfgBadParser, CfgA, CfgB}

\* what the configuration file may hold when main reads it at start-up
StartSources == {CfgMissing, CfgBroken, CfgBadParser, CfgA}

Config(src) ==
    [ptype |-> src.ptype, Timeout |-> src.Timeout, Extended |-> src.Extended,
     Level |-> src.Level]

\* setLogLevel (server.go:323-339): the level of the logger it makes
setLogLevel(level) == IF level \in {"debug", "info", "warn", "error"} THEN level ELSE "info"

\* NewConfig: stat, fig.Load, then the parser type switch.
NewConfig(src) ==
    IF ~src.exists THEN [conf |-> Config(CfgMissing), err |-> "failed to read config"]
    ELSE IF ~src.loadable THEN [conf |-> Config(src), err |-> "failed to load config"]
    ELSE IF src.ptype \notin {"rfc3164", "rfc5424"}
         THEN [conf |-> Config(CfgMissing), err |-> "unknown parser type"]
    ELSE [conf |-> Config(src), err |-> NoErr]

\* the parser types registered by the blank imports of server.go:114-115
ParserTypes == {"rfc3164", "rfc5424"}

\* parsesyslog.New as New calls it (server.go:153): an error for a parser
\* type that is not registered
ParserNew(ptype) == IF ptype \in ParserTypes THEN NoErr ELSE "unknown parser type"

\* ------------------------------------------------------------------ rules
\* A value of the map[string]any of a rule's action block, with its dynamic type.
NilVal == [t |-> "nil", v |-> ""]
Str(s) == [t |-> "string", v |-> s]
Bool(b) == [t |-> "bool", v |-> IF b THEN "true" ELSE "false"]

\* the value under the key "file": nothing, a table, or something that is no table
NoFileCfg == [t |-> "nil", output_filepath |-> NilVal, output_template |-> NilVal, overwrite |-> NilVal]
FileCfg(path, tpl, ow) == [t |-> "map", output_filepath |-> path, output_template |-> tpl, overwrite |-> ow]

\* A compiled regular expression is the function from the strings it matches
\* to their submatches (index 1 = whole match).
NilRegexp == [nil |-> TRUE, re |-> <<>>]
Regexp(f) == [nil |-> FALSE, re |-> f]

MatchString(rx, s) == s \in DOMAIN rx.re

FindStringSubmatch(rx, s) == IF s \in DOMAIN rx.re THEN rx.re[s] ELSE <<>>

ReDiskFull == Regexp([s \in {"disk full"} |-> <<"disk full">>])
ReDisk == Regexp([s \in {"disk full", "disk ok"} |-> <<s, "disk">>])
ReHost1 == Regexp([s \in {"host1"} |-> <<"host1">>])

RuleDisk ==
    [ID |-> ID_r1, Regexp |-> ReDiskFull, HostMatch |-> NilRegexp,
     Actions |-> [file |-> FileCfg(Str("/a"), Str("T1"), NilVal)]]
RuleHost ==
    [ID |-> ID_r2, Regexp |-> ReDisk, HostMatch |-> ReHost1,
     Actions |-> [file |-> FileCfg(Str("/b"), Str("T2"), Bool(TRUE))]]
RuleDiskUpper ==
    [ID |-> ID_R1, Regexp |-> ReDisk, HostMatch |-> NilRegexp,
     Actions |-> [file |-> FileCfg(Str("/c"), Str("T1"), Bool(FALSE))]]
RuleBadCfg ==
    [ID |-> ID_r3, Regexp |-> ReDisk, HostMatch |-> NilRegexp,
     Actions |-> [file |-> FileCfg(Str("/d"), NilVal, NilVal)]]
RuleNoFile ==
    [ID |-> ID_r4, Regexp |-> ReDisk, HostMatch |-> NilRegexp,
     Actions |-> [file |-> NoFileCfg]]

\* rules for the file action on one file: overwrite mode, and a template
\* that does not parse
RuleOw ==
    [ID |-> ID_r5, Regexp |-> ReDisk, HostMatch |-> NilRegexp,
     Actions |-> [file |-> FileCfg(Str("/a"), Str("T1"), Bool(TRUE))]]
RuleBadTpl ==
    [ID |-> ID_r6, Regexp |-> ReDisk, HostMatch |-> NilRegexp,
     Actions |-> [file |-> FileCfg(Str("/a"), Str("T{"), Bool(TRUE))]]

\* A ruleset source is what stands on disk when NewRuleset reads the rule file.
RsMissing == [exists |-> FALSE, loadable |-> FALSE, Rule |-> <<>>]
RsBroken == [exists |-> TRUE, loadable |-> FALSE, Rule |-> <<>>]
RsDup == [exists |-> TRUE, loadable |-> TRUE, Rule |-> <<RuleDisk, RuleHost, RuleDiskUpper>>]
RsA == [exists |-> TRUE, loadable |-> TRUE, Rule |-> <<RuleDisk, RuleHost>>]
RsB == [exists |-> TRUE, loadable |-> TRUE, Rule |-> <<RuleBadCfg, RuleNoFile>>]

RulesetSources == {RsMissing, RsBroken, RsDup, RsA, RsB}

\* the rule file of the end-to-end scenario: one rule, file action, append mode
RsOne == [exists |-> TRUE, loadable |-> TRUE, Rule |-> <<RuleDisk>>]

\* every rule file of at most MaxRules rules out of the rules above
RulePool == {RuleDisk, RuleHost, RuleDiskUpper, RuleBadCfg, RuleNoFile}
RuleLists == UNION {[1..n -> RulePool] : n \in 0..MaxRules}
AllSources ==
    {RsMissing, RsBroken} \cup {[exists |-> TRUE, loadable |-> TRUE, Rule |-> l] : l \in RuleLists}

\* the rule files of the file action scenario: one or two different rules
FilePool == {RuleOw, RuleDisk, RuleNoFile, RuleBadTpl, RuleBadCfg}
FileSources ==
    {[exists |-> TRUE, loadable |-> TRUE, Rule |-> l] :
        l \in {r \in UNION {[1..n -> FilePool] : n \in 1..MaxRules} :
                  \A i, j \in DOMAIN r : i # j => r[i] # r[j]}}

\* the nil *Ruleset
NilRuleset == [ver |-> 0, Rule |-> <<>>]

\* the duplicate check had it compared the ids with ==
HasDuplicateExact(rules) ==
    \E i \in 1..Len(rules) : \E j \in 1..(i - 1) : rules[i].ID = rules[j].ID

\* the duplicate check of NewRuleset: some rule id folds to an earlier one
HasDuplicate(rules) ==
    \E i \in 1..Len(rules) : \E j \in 1..(i - 1) : EqualFold(rules[i].ID, rules[j].ID)

\* NewRuleset: stat, fig.Load, duplicate check.  ver is the identity of the
\* freshly allocated Ruleset object.
NewRuleset(src, ver) ==
    IF ~src.exists THEN [ruleset |-> [ver |-> ver, Rule |-> <<>>], err |-> "failed to read config"]
    ELSE IF ~src.loadable THEN [ruleset |-> [ver |-> ver, Rule |-> <<>>], err |-> "failed to load ruleset"]
    ELSE IF HasDuplicate(src.Rule) THEN [ruleset |-> NilRuleset, err |-> "duplicate rule found"]
    ELSE [ruleset |-> [ver |-> ver, Rule |-> src.Rule], err |-> NoErr]

\* setRules had it stored the result of NewRuleset before testing the error
setRulesStoreFirst(old, src, ver) ==
    LET r == NewRuleset(src, ver) IN
    [ruleset |-> r.ruleset,
     err |-> IF r.err # NoErr THEN "failed to read ruleset" ELSE NoErr]

\* setRules: the server's ruleset after the call, and the error returned
setRules(old, src, ver) ==
    LET r == NewRuleset(src, ver) IN
    IF r.err # NoErr THEN [ruleset |-> old, err |-> "failed to read ruleset"]
    ELSE [ruleset |-> r.ruleset, err |-> NoErr]

\* New had it not tested the registry
NewResultNoRegistryCheck(old, src, ptype, reg) ==
    LET r == setRules(old, src, 1) IN
    IF r.err # NoErr THEN r
    ELSE IF ParserNew(ptype) # NoErr
         THEN [ruleset |-> r.ruleset, err |-> "failed to initialize syslog parser"]
    ELSE [ruleset |-> r.ruleset, err |-> NoErr]

\* New (server.go:143-165): the ruleset of the server it returns, and its
\* error: setRules, then parsesyslog.New, then the test of the registry
NewResult(old, src, ptype, reg) ==
    LET r == setRules(old, src, 1) IN
    IF r.err # NoErr THEN r
    ELSE IF ParserNew(ptype) # NoErr
         THEN [ruleset |-> r.ruleset, err |-> "failed to initialize syslog parser"]
    ELSE IF reg = {}
         THEN [ruleset |-> r.ruleset, err |-> "no action plugins found/configured"]
    ELSE [ruleset |-> r.ruleset, err |-> NoErr]

\* ------------------------------------------------------------------ actions
\* the registry: actions.Actions after the plugins' init functions ran
Actions == {"file", "mock"}

\* the zero File{} registered by init
File0 == [Enabled |-> FALSE, FilePath |-> "", OutputTemplate |-> "", Overwrite |-> FALSE]

\* File.Config: the fields of the shared instance after the call, and the error
FileConfig(f, configMap) ==
    LET c == configMap.file
        f1 == [f EXCEPT !.Enabled = TRUE]
        f2 == [f1 EXCEPT !.FilePath = c.output_filepath.v]
        f3 == [f2 EXCEPT !.OutputTemplate = c.output_template.v]
        f4 == IF c.overwrite.t = "bool" /\ c.overwrite.v = "true"
              THEN [f3 EXCEPT !.Overwrite = TRUE] ELSE f3
    IN
    IF c.t = "nil" THEN [f |-> f, err |-> NoErr]
    ELSE IF c.t # "map" THEN [f |-> f, err |-> "missing configuration for file action"]
    ELSE IF c.output_filepath.t # "string" \/ c.output_filepath.v = ""
         THEN [f |-> f1, err |-> "no output_filename configured for file action"]
    ELSE IF c.output_template.t # "string" \/ c.output_template.v = ""
         THEN [f |-> f2, err |-> "not output_template configured for file action"]
    ELSE [f |-> f4, err |-> NoErr]

\* the clock: time.Now() as template.Compile reads it (template.go:139-140)
MaxClock == 2
Epoch == 0

\* Compile had it put the current time into every text it renders
CompileStamped(msg, mg, ot, now) ==
    IF ot = "" THEN [out |-> "", err |-> NoErr]
    ELSE IF ot \in {"T1", "T2", "TNow"}
         THEN IF ot # "TNow" /\ Len(mg) = 0
              THEN [out |-> "", err |-> "failed to compile template"]
              ELSE [out |-> ToString(now) \o "\n", err |-> NoErr]
    ELSE [out |-> "", err |-> "failed to create template"]

\* template.Compile for the templates of the rules above.  T1 stands for
\* "{{.hostname}} {{index .match 0}}\n", T2 for "{{index .match 0}}\n" and
\* TNow for "{{.now_unix}}\n"; any other non-empty template stands for one
\* that Parse rejects.  The empty template parses and renders the empty
\* text.  Execute writes as it goes: index fails on an empty match group
\* after the text before it was written, and Compile returns that text with
\* the error.  now is what time.Now() returns during the call.
Compile(msg, mg, ot, now) ==
    IF ot = "" THEN [out |-> "", err |-> NoErr]
    ELSE IF ot = "T1"
         THEN IF Len(mg) = 0
              THEN [out |-> msg.Hostname \o " ", err |-> "failed to compile template"]
              ELSE [out |-> msg.Hostname \o " " \o mg[1] \o "\n", err |-> NoErr]
    ELSE IF ot = "T2"
         THEN IF Len(mg) = 0
              THEN [out |-> "", err |-> "failed to compile template"]
              ELSE [out |-> mg[1] \o "\n", err |-> NoErr]
    ELSE IF ot = "TNow" THEN [out |-> ToString(now) \o "\n", err |-> NoErr]
    ELSE [out |-> "", err |-> "failed to create template"]

\* File.Process: what it used of the shared instance, whether it wrote, the error.
\* io is the outcome of the file system calls.
FileProcess(f, msg, mg, io) ==
    IF ~f.Enabled THEN [wrote |-> FALSE, used |-> f, err |-> NoErr]
    ELSE IF io = "open" \/ f.FilePath = ""
         THEN [wrote |-> FALSE, used |-> f, err |-> "failed to open file for writing in file action"]
    ELSE IF Compile(msg, mg, f.OutputTemplate, Epoch).err # NoErr
         THEN [wrote |-> FALSE, used |-> f, err |-> Compile(msg, mg, f.OutputTemplate, Epoch).err]
    ELSE IF io = "write" THEN [wrote |-> FALSE, used |-> f, err |-> "failed to write log message to file"]
    ELSE [wrote |-> TRUE, used |-> f, err |-> NoErr]

\* File.Process had it opened every file with O_TRUNC
FileWriteTruncAlways(fs, f, msg, mg, io) ==
    LET c == Compile(msg, mg, f.OutputTemplate, Epoch) IN
    IF ~f.Enabled \/ io = "open" \/ f.FilePath = "" THEN fs
    ELSE IF c.err # NoErr \/ io = "write" THEN [fs EXCEPT ![f.FilePath] = ""]
    ELSE [fs EXCEPT ![f.FilePath] = c.out]

\* File.Process: the content of the files after the call, when no other
\* call comes between its steps.  OpenFile truncates in overwrite mode
\* (part_005:73-78) before the template is compiled (part_005:86); WriteString
\* appends the rendered text (part_005:90).
FileWrite(fs, f, msg, mg, io) ==
    LET c == Compile(msg, mg, f.OutputTemplate, Epoch)
        opened == IF f.Overwrite THEN [fs EXCEPT ![f.FilePath] = ""] ELSE fs
    IN
    IF ~f.Enabled \/ io = "open" \/ f.FilePath = "" THEN fs
    ELSE IF c.err # NoErr \/ io = "write" THEN opened
    ELSE [opened EXCEPT ![f.FilePath] = @ \o c.out]

IOResults == {"ok", "open"}

\* The registry is open (actions.Add is exported, the server imports
\* plugins/actions/all): the second plugin stands for any other implementation
\* of the Action interface.  It keeps no configuration and returns no error.
MockConfig(configMap) == NoErr

MockProcess(msg, mg) == NoErr

\* ------------------------------------------------------------------ messages
Msgs ==
    { [Hostname |-> "host1", Message |-> "disk full"],
      [Hostname |-> "host2", Message |-> "disk ok"] }

NoMsg == [Hostname |-> "", Message |-> ""]

\* the inputs of the repeated rendering
Templates == {"", "T1", "T2", "TNow", "T{"}
MatchGroups == {<<>>, <<"disk full">>, <<"disk ok", "disk">>}
Tpl0 == [msg |-> NoMsg, mg |-> <<>>, ot |-> "", now |-> Epoch, runs |-> <<>>]

\* ------------------------------------------------------------------ state
VARIABLES
    phase,      \* main: "boot", "new", "ready", "listening", "serving", "exited"
    conf,       \* Server.conf
    ruleset,    \* Server.ruleset
    synced,     \* the fields of *Server.ruleset are visible to the other goroutines
    reload,     \* the ReloadConfig call in progress or last returned
    conns,      \* the accepted connections and their handlers
    disp,       \* the processMessage tasks
    fileAct,    \* the fields of the registered File instance
    wg,         \* Server.wg
    registry,   \* actions.Actions: the names of the registered plugins
    ruleFiles,  \* what the rule file on disk may hold when it is read
    start,      \* the start-up of the process: its last step and its error
    files,      \* the content of the output files
    lst,        \* the listener: the configuration Run is called with, the outcome
                \* of NewListener, and the accept loop on it
    tpl         \* template.Compile called again and again on one input: the
                \* input, the clock, and what each call returned

vars == <<phase, conf, ruleset, synced, reload, conns, disp, fileAct, wg,
          registry, ruleFiles, start, files, lst, tpl>>

ConnIds == 1..MaxConns
DispIds == 1..MaxMsgs

\* pc: "none" (not accepted), "deadline", "parse", "done"; deadline is the
\* timeout of the read deadline in force; last is the outcome of the last call
\* of the current turn of ReadLoop; bad says that a malformed frame was read;
\* closes counts the calls of conn.Close, closeErr is the error of the last
\* one; errlog holds the error lines the handler logged; parsed counts the
\* messages ParseReader has returned from the connection's reader
NoConn ==
    [pc |-> "none", deadline |-> 0, last |-> "", bad |-> FALSE,
     closes |-> 0, closeErr |-> FALSE, errlog |-> {}, parsed |-> 0]

\* the file handle of a Process call that has opened its file and not yet
\* written: the path, and whether it was opened with O_APPEND
NoFd == [path |-> "", append |-> FALSE]

\* pc: "none" (not spawned), "start", "config", "process", "write" (the file
\* action has opened the file), "done"; fd is the open file handle; conn is
\* the connection the message came from and afterBad says that a malformed
\* frame was read from it before; rn and rpc are the reload count and the
\* position of ReloadConfig when the task loaded s.ruleset; rs is the Ruleset
\* the loaded pointer refers to and rules what the task saw as its Rule field;
\* frame is the place of the message among the messages parsed from conn
NoDisp ==
    [pc |-> "none", msg |-> NoMsg, conn |-> 0, frame |-> 0, fd |-> NoFd,
     afterBad |-> FALSE, rn |-> 0, rpc |-> "",
     rs |-> NilRuleset,
     rules |-> <<>>, ri |-> 0, mg |-> <<>>, todo |-> {}, cur |-> "", calls |-> {}]

\* step is the last start-up call made ("NewConfig", "New"), err its error,
\* cfgSrc and rsSrc the files the two calls read; parser is the parser type
\* of Server.parser and log the level of Server.log, "" while they are nil
Start0 ==
    [step |-> "none", err |-> NoErr, cfgSrc |-> CfgMissing, rsSrc |-> RsMissing,
     parser |-> "", log |-> ""]

\* the output files the rules name
Paths == {"/a", "/b", "/c", "/d"}

\* confSynced says that the store to s.conf (server.go:364) and the stores
\* that built the Config are visible to the other goroutines
Reload0 ==
    [pc |-> "idle", n |-> 0, err |-> NoErr, stage |-> "none",
     preConf |-> Config(CfgA), preRuleset |-> NilRuleset, rsSrc |-> RsMissing,
     confSynced |-> TRUE]

NumConns == Cardinality({c \in ConnIds : conns[c].pc # "none"})
NumDisp == Cardinality({d \in DispIds : disp[d].pc # "none"})
\* the faults on the listener's side the server went on after
NumFaults == lst.fails + (IF lst.pid \in {"pidwrite", "pidclose"} THEN 1 ELSE 0)
NumTasks == NumConns + NumDisp + reload.n + NumFaults

\* ---------------------------------------------------------------- listener
\* ListenerType (listener.go:17-24); 3 is a value that is none of the three
ListenerUnix == 0
ListenerTCP == 1
ListenerTLS == 2
ListenerTypes == {ListenerUnix, ListenerTCP, ListenerTLS, 3}

\* the certificate and key paths of the configuration
PemPaths == {"", "/tls/a.pem", "/tls/b.pem"}

\* the bind addresses and ports of the TCP and the TLS section
Addrs == {"0.0.0.0", "127.0.0.1"}
Ports == {9099, 9100}
Sections == [Addr : Addrs, Port : Ports]

\* Config.Listener (config.go:18-35): the type, the socket path of the UNIX
\* section, the TCP section, and the TLS section with its two paths
ListenerConfigs ==
    [Type : ListenerTypes, Path : {"/var/tmp/logranger.sock"}, TCP : Sections, TLS : Sections,
     CertPath : PemPaths, KeyPath : PemPaths]

\* the outcomes of the calls NewListener makes: net.ResolveUnixAddr,
\* tls.LoadX509KeyPair, net.Listen / tls.Listen
ListenerEnvs == [resolve : BOOLEAN, load : BOOLEAN, listen : BOOLEAN]

ErrCertConfigEmpty == "certificate and key paths are required for listener type: TLS"

\* net.JoinHostPort(addr, fmt.Sprintf("%d", port))
JoinHostPort(sec) == sec.Addr \o ":" \o ToString(sec.Port)

\* NewListener returns before it binds: the calls made so far and the error
NoBind(io, err) == [io |-> io, err |-> err, bound |-> ""]

\* net.Listen or tls.Listen on addr as the last call: the listener is bound
\* to addr, or the error is returned
ListenResult(io, ok, addr) ==
    [io |-> io, err |-> IF ok THEN NoErr ELSE "failed to initialize listener",
     bound |-> IF ok THEN addr ELSE ""]

\* NewListener had it not tested the two paths
NewListenerNoCertCheck(cfg, env) ==
    IF cfg.Type = ListenerUnix
    THEN IF ~env.resolve
         THEN NoBind(<<"ResolveUnixAddr">>, "failed to resolve UNIX listener socket")
         ELSE ListenResult(<<"ResolveUnixAddr", "Listen">>, env.listen, cfg.Path)
    ELSE IF cfg.Type = ListenerTCP
    THEN ListenResult(<<"Listen">>, env.listen, JoinHostPort(cfg.TCP))
    ELSE IF cfg.Type = ListenerTLS
    THEN IF ~env.load \/ cfg.CertPath = "" \/ cfg.KeyPath = ""
         THEN NoBind(<<"LoadX509KeyPair">>, "failed to load X509 certificate")
         ELSE ListenResult(<<"LoadX509KeyPair", "Listen">>, env.listen, JoinHostPort(cfg.TLS))
    ELSE NoBind(<<>>, "failed to initialize listener: unknown listener type in config")

\* NewListener as it was before (rule.go:168-199): the TLS listener is
\* bound to the address and port of the TCP section
NewListenerTLSOnTCPSection(cfg, env) ==
    IF cfg.Type = ListenerUnix
    THEN IF ~env.resolve
         THEN NoBind(<<"ResolveUnixAddr">>, "failed to resolve UNIX listener socket")
         ELSE ListenResult(<<"ResolveUnixAddr", "Listen">>, env.listen, cfg.Path)
    ELSE IF cfg.Type = ListenerTCP
    THEN ListenResult(<<"Listen">>, env.listen, JoinHostPort(cfg.TCP))
    ELSE IF cfg.Type = ListenerTLS
    THEN IF cfg.CertPath = "" \/ cfg.KeyPath = ""
         THEN NoBind(<<>>, ErrCertConfigEmpty)
         ELSE IF ~env.load
         THEN NoBind(<<"LoadX509KeyPair">>, "failed to load X509 certificate")
         ELSE ListenResult(<<"LoadX509KeyPair", "Listen">>, env.listen, JoinHostPort(cfg.TCP))
    ELSE NoBind(<<>>, "failed to initialize listener: unknown listener type in config")

\* NewListener (listener.go:29-61): the calls it made, in order, its error,
\* and the address the listener it returns is bound to
NewListener(cfg, env) ==
    IF cfg.Type = ListenerUnix
    THEN IF ~env.resolve
         THEN NoBind(<<"ResolveUnixAddr">>, "failed to resolve UNIX listener socket")
         ELSE ListenResult(<<"ResolveUnixAddr", "Listen">>, env.listen, cfg.Path)
    ELSE IF cfg.Type = ListenerTCP
    THEN ListenResult(<<"Listen">>, env.listen, JoinHostPort(cfg.TCP))
    ELSE IF cfg.Type = ListenerTLS
    THEN IF cfg.CertPath = "" \/ cfg.KeyPath = ""
         THEN NoBind(<<>>, ErrCertConfigEmpty)
         ELSE IF ~env.load
         THEN NoBind(<<"LoadX509KeyPair">>, "failed to load X509 certificate")
         ELSE ListenResult(<<"LoadX509KeyPair", "Listen">>, env.listen, JoinHostPort(cfg.TLS))
    ELSE NoBind(<<>>, "failed to initialize listener: unknown listener type in config")

\* no listener asked for yet
NoListen == NoBind(<<>>, "none")

\* the listener section of the start-up configuration: TCP, with the
\* defaults of config.go:21-33
ListenerCfg0 ==
    [Type |-> ListenerTCP, Path |-> "/var/tmp/logranger.sock",
     TCP |-> [Addr |-> "0.0.0.0", Port |-> 9099], TLS |-> [Addr |-> "0.0.0.0", Port |-> 9099],
     CertPath |-> "", KeyPath |-> ""]

\* calls of Accept that return an error in one run
MaxAcceptErrs == 1

\* pid is the outcome of the PID file steps of RunWithListener and ret what
\* RunWithListener returned ("none": not called, or it did not return); loop
\* is the position of the Listen goroutine: "none" (not started), "accept"
\* (in its loop, server.go:213-227), "returned"; fails counts the calls of
\* Accept that returned an error; errlog holds the error lines
\* RunWithListener and Listen logged
Lst0 ==
    [cfg |-> ListenerCfg0, res |-> NoListen,
     pid |-> "none", ret |-> "none", loop |-> "none", fails |-> 0, errlog |-> {}]

\* Add (part_006:15-17): Actions[name] = action
Add(reg, name) == reg \cup {name}

\* the registries of the builds: no plugin package is linked, or all are
Builds == {{}, Actions}

\* The process as the runtime starts it: no init function has run yet,
\* nothing is loaded.
Boot(rf) ==
    /\ phase = "boot"
    /\ conf = Config(CfgMissing)
    /\ ruleset = NilRuleset
    /\ synced = TRUE
    /\ reload = Reload0
    /\ conns = [c \in ConnIds |-> NoConn]
    /\ disp = [d \in DispIds |-> NoDisp]
    /\ fileAct = File0
    /\ wg = 0
    /\ registry = {}
    /\ ruleFiles = rf
    /\ start = Start0
    /\ files = [p \in Paths |-> ""]
    /\ lst = Lst0
    /\ tpl = Tpl0

Init == Boot(RulesetSources)

\* the start-up and the reloads alone, with every rule file
InitLoad == Boot(AllSources)

\* the Config values a caller of New may hold: the zero Config (its
\* internal.ParserType is empty), one with a parser type no parser is
\* registered for, one that NewConfig returned
CallerConfigs == {Config(CfgMissing), Config(CfgBadParser), Config(CfgA)}

\* the start-up either way: main from its first statement, or New called
\* (server.go:143) on a Config its caller built
InitNew ==
    /\ phase \in {"boot", "new"}
    /\ conf \in (IF phase = "boot" THEN {Config(CfgMissing)} ELSE CallerConfigs)
    /\ ruleset = NilRuleset
    /\ synced = TRUE
    /\ reload = Reload0
    /\ conns = [c \in ConnIds |-> NoConn]
    /\ disp = [d \in DispIds |-> NoDisp]
    /\ fileAct = File0
    /\ wg = 0
    /\ registry \in Builds
    /\ ruleFiles = RulesetSources
    /\ start = Start0
    /\ files = [p \in Paths |-> ""]
    /\ lst = Lst0
    /\ tpl = Tpl0

\* Run called on a server New returned, with any listener configuration
InitListener ==
    /\ phase = "ready"
    /\ conf = Config(CfgA)
    /\ ruleset = NewRuleset(RsA, 1).ruleset
    /\ synced = TRUE
    /\ reload = Reload0
    /\ conns = [c \in ConnIds |-> NoConn]
    /\ disp = [d \in DispIds |-> NoDisp]
    /\ fileAct = File0
    /\ wg = 0
    /\ registry = Actions
    /\ ruleFiles = {RsA}
    /\ start = [Start0 EXCEPT !.step = "New", !.cfgSrc = CfgA, !.rsSrc = RsA,
                              !.parser = "rfc3164", !.log = "info"]
    /\ files = [p \in Paths |-> ""]
    /\ lst \in {[Lst0 EXCEPT !.cfg = c] : c \in ListenerConfigs}
    /\ tpl = Tpl0

\* the end-to-end scenario: the rule file holds the one rule of RsOne
InitOneRule == Boot({RsOne})

\* the rule files SIGHUP may find in the serving scenario
ServeSources == {RsOne, RsB, RsMissing}

\* the server as RunWithListener leaves it after a start-up on CfgA and RsOne
\* with a TCP listener: the accept loop runs, nothing is accepted yet
InitServe ==
    /\ phase = "serving"
    /\ conf = Config(CfgA)
    /\ ruleset = NewRuleset(RsOne, 1).ruleset
    /\ synced = TRUE
    /\ reload = Reload0
    /\ conns = [c \in ConnIds |-> NoConn]
    /\ disp = [d \in DispIds |-> NoDisp]
    /\ fileAct = File0
    /\ wg = 1
    /\ registry = Actions
    /\ ruleFiles = ServeSources
    /\ start = [Start0 EXCEPT !.step = "New", !.cfgSrc = CfgA, !.rsSrc = RsOne,
                              !.parser = "rfc3164", !.log = "info"]
    /\ files = [p \in Paths |-> ""]
    /\ lst = [Lst0 EXCEPT !.res = ListenResult(<<"Listen">>, TRUE, JoinHostPort(Lst0.cfg.TCP)),
                          !.pid = "ok", !.ret = NoErr, !.loop = "accept"]
    /\ tpl = Tpl0

\* processMessage called on a Server value as a test of the package builds
\* it: with no ruleset or with one of the rulesets, one task per message,
\* each counted in the WaitGroup next to the accept loop
InitDispatch ==
    /\ phase = "serving"
    /\ conf = Config(CfgA)
    /\ ruleset \in {NilRuleset} \cup {NewRuleset(src, 1).ruleset : src \in {RsA, RsB, RsOne}}
    /\ synced = TRUE
    /\ reload = Reload0
    /\ conns = [c \in ConnIds |-> NoConn]
    /\ disp \in [DispIds -> {[NoDisp EXCEPT !.pc = "start", !.msg = m] : m \in Msgs}]
    /\ fileAct = File0
    /\ wg = 1 + MaxMsgs
    /\ registry = Actions
    /\ ruleFiles = RulesetSources
    /\ start = Start0
    /\ files = [p \in Paths |-> ""]
    /\ lst = Lst0
    /\ tpl = Tpl0

\* the file action alone is registered (part_005:104-106) and processMessage
\* is called for every message at once, on one of the rule files of the
\* file action scenario; the output file is empty or holds an earlier text
OldTexts == {"", "earlier text\n"}

InitFile ==
    /\ phase = "serving"
    /\ conf = Config(CfgA)
    /\ ruleset \in {NewRuleset(src, 1).ruleset : src \in FileSources}
    /\ synced = TRUE
    /\ reload = Reload0
    /\ conns = [c \in ConnIds |-> NoConn]
    /\ disp \in [DispIds -> {[NoDisp EXCEPT !.pc = "start", !.msg = m] : m \in Msgs}]
    /\ fileAct = File0
    /\ wg = 1 + MaxMsgs
    /\ registry = {"file"}
    /\ ruleFiles = FileSources
    /\ start = Start0
    /\ files \in {[p \in Paths |-> IF p = "/a" THEN t ELSE ""] : t \in OldTexts}
    /\ lst = Lst0
    /\ tpl = Tpl0

\* template.Compile called by itself, on any message, match groups and
\* template
InitTemplate ==
    /\ phase = "serving"
    /\ conf = Config(CfgA)
    /\ ruleset = NilRuleset
    /\ synced = TRUE
    /\ reload = Reload0
    /\ conns = [c \in ConnIds |-> NoConn]
    /\ disp = [d \in DispIds |-> NoDisp]
    /\ fileAct = File0
    /\ wg = 1
    /\ registry = {"file"}
    /\ ruleFiles = RulesetSources
    /\ start = Start0
    /\ files = [p \in Paths |-> ""]
    /\ lst = Lst0
    /\ tpl \in {[Tpl0 EXCEPT !.msg = m, !.mg = g, !.ot = o] :
                    m \in Msgs, g \in MatchGroups, o \in Templates}

\* ------------------------------------------------------------------ main
\* the init functions ran whenever, not only before main
InitRunsAnytime(p) == TRUE

\* the Go runtime runs the init functions of the linked packages before
\* main begins, and at no other time
InitRuns(p) == p = "boot"

\* init of a plugin package (part_005:104-106): actions.Add(name, &File{})
init ==
    /\ InitRuns(phase)
    /\ \E name \in Actions \ registry : registry' = Add(registry, name)
    /\ UNCHANGED <<phase, conf, ruleset, synced, reload, conns, disp, fileAct, wg, ruleFiles, start, files, lst, tpl>>

\* main (main.go:22-36), begun when the init functions of the build have
\* run: NewConfig on the configuration file; on error main logs and exits.
main ==
    /\ phase = "boot"
    /\ registry \in Builds
    /\ \E src \in StartSources :
        LET r == NewConfig(src) IN
        /\ conf' = IF r.err = NoErr THEN r.conf ELSE conf
        /\ phase' = IF r.err = NoErr THEN "new" ELSE "exited"
        /\ start' = [start EXCEPT !.step = "NewConfig", !.err = r.err, !.cfgSrc = src]
    /\ UNCHANGED <<ruleset, synced, reload, conns, disp, fileAct, wg, registry, ruleFiles, files, lst, tpl>>

\* New (server.go:143-165) as main calls it (main.go:38-42): setLogLevel
\* makes the logger, the parser is made when setRules succeeded; on error
\* main logs and exits.
New ==
    /\ phase = "new"
    /\ \E src \in ruleFiles :
        LET r == NewResult(ruleset, src, conf.ptype, registry) IN
        /\ ruleset' = r.ruleset
        /\ phase' = IF r.err # NoErr THEN "exited" ELSE "ready"
        /\ start' = [start EXCEPT !.step = "New", !.err = r.err, !.rsSrc = src,
                                  !.log = setLogLevel(conf.Level),
                                  !.parser = IF setRules(ruleset, src, 1).err = NoErr
                                                /\ ParserNew(conf.ptype) = NoErr
                                             THEN conf.ptype ELSE ""]
    /\ UNCHANGED <<conf, synced, reload, conns, disp, fileAct, wg, registry, ruleFiles, files, lst, tpl>>

\* Run (server.go:169-175): NewListener on the configuration; its error
\* is returned to main, which exits (main.go:44-49)
Run ==
    /\ phase = "ready"
    /\ lst.res = NoListen
    /\ \E env \in ListenerEnvs :
        LET r == NewListener(lst.cfg, env) IN
        /\ lst' = [lst EXCEPT !.res = r]
        /\ phase' = IF r.err = NoErr THEN "listening" ELSE "exited"
    /\ UNCHANGED <<conf, ruleset, synced, reload, conns, disp, fileAct, wg, registry, ruleFiles, start, files, tpl>>

\* the outcomes of the PID file steps of RunWithListener: all succeed, or
\* os.Create, WriteString or Close fails
RunResults == {"ok", "pidcreate", "pidwrite", "pidclose"}

\* the error lines RunWithListener logs (server.go:186-200).  After a failed
\* write the file is closed at once, and the Close that follows fails on
\* the closed file.
PidLines(r) ==
    IF r = "pidcreate" THEN {"failed to create PID file"}
    ELSE IF r = "pidwrite" THEN {"failed to write PID to PID file", "failed to close PID file"}
    ELSE IF r = "pidclose" THEN {"failed to close PID file"}
    ELSE {}

\* what RunWithListener returns (server.go:185-206): os.Exit(1) ends the
\* process when the PID file cannot be created, so nothing is returned; in
\* every other case the last statement returns nil
RunReturns(r) == IF r = "pidcreate" THEN "none" ELSE NoErr

\* RunWithListener (server.go:181-207) on the listener Run obtained: a PID
\* file creation failure ends the process, the other PID file failures are
\* logged; then wg.Add(1) and go s.Listen().
RunWithListener ==
    /\ phase = "listening"
    /\ \E r \in RunResults :
        /\ lst' = [lst EXCEPT !.pid = r, !.ret = RunReturns(r),
                              !.errlog = @ \cup PidLines(r),
                              !.loop = IF r = "pidcreate" THEN @ ELSE "accept"]
        /\ IF r = "pidcreate"
           THEN /\ phase' = "exited"
                /\ wg' = wg
           ELSE /\ phase' = "serving"
                /\ wg' = wg + 1
    /\ UNCHANGED <<conf, ruleset, synced, reload, conns, disp, fileAct, registry, ruleFiles, start, files, tpl>>

\* ------------------------------------------------------------------ reload
\* ReloadConfig had it made the logger and the parser again from the new
\* configuration
ReloadedRemakesAll(st, cfg) == [st EXCEPT !.log = setLogLevel(cfg.Level), !.parser = cfg.ptype]

\* ReloadConfig (server.go:359-371) assigns s.conf and, through setRules,
\* s.ruleset, and no other field of the Server: the parser and the logger
\* New made stay, whatever the new configuration names
Reloaded(st, cfg) == st

\* ReloadConfig, first half (server.go:360-364): NewConfig, then s.conf = config.
ReloadConfigLoad ==
    /\ phase \in {"ready", "listening", "serving"}
    /\ reload.pc = "idle"
    /\ reload.n < MaxReloads
    /\ NumTasks < MaxTasks
    /\ \E src \in ConfigSources :
        LET r == NewConfig(src) IN
        /\ conf' = IF r.err = NoErr THEN r.conf ELSE conf
        /\ reload' = [pc |-> IF r.err = NoErr THEN "rules" ELSE "idle",
                      n |-> reload.n + 1,
                      err |-> IF r.err = NoErr THEN NoErr ELSE "failed to reload config",
                      stage |-> "config",
                      preConf |-> conf, preRuleset |-> ruleset, rsSrc |-> RsMissing,
                      confSynced |-> (r.err # NoErr)]
        /\ start' = IF r.err = NoErr THEN Reloaded(start, r.conf) ELSE start
    /\ UNCHANGED <<phase, ruleset, synced, conns, disp, fileAct, wg, registry, ruleFiles, files, lst, tpl>>

\* ReloadConfig, second half (server.go:366-370): setRules on the rule file.
ReloadConfigRules ==
    /\ phase \in {"ready", "listening", "serving"}
    /\ reload.pc = "rules"
    /\ \E src \in ruleFiles :
        LET r == setRules(ruleset, src, reload.n + 1) IN
        /\ ruleset' = r.ruleset
        /\ synced' = IF r.err = NoErr THEN FALSE ELSE synced
        /\ reload' = [reload EXCEPT !.pc = "idle", !.stage = "ruleset", !.rsSrc = src,
                                    !.err = IF r.err = NoErr THEN NoErr
                                            ELSE "failed to reload ruleset"]
    /\ UNCHANGED <<phase, conf, conns, disp, fileAct, wg, registry, ruleFiles, start, files, lst, tpl>>

\* The stores of ReloadConfig (the new Config and s.conf, the new Ruleset and
\* s.ruleset) become visible to the other goroutines.  Nothing in the program
\* orders them with the loads of the handlers and the dispatch tasks.
MemSync ==
    /\ ~synced \/ ~reload.confSynced
    /\ synced' = TRUE
    /\ reload' = [reload EXCEPT !.confSynced = TRUE]
    /\ UNCHANGED <<phase, conf, ruleset, conns, disp, fileAct, wg, registry, ruleFiles, start, files, lst, tpl>>

\* ------------------------------------------------------------------ accept loop
\* the accept loop had it called the handler itself instead of spawning it
FreeConnWhenIdle ==
    {c \in ConnIds : /\ conns[c].pc = "none"
                     /\ \A b \in 1..(c - 1) : conns[b].pc # "none"
                     /\ \A b \in ConnIds : conns[b].pc \in {"none", "done"}}

\* the read loop had it called processMessage itself instead of spawning it
FreeDispWhenIdle ==
    {d \in DispIds : /\ disp[d].pc = "none"
                     /\ \A b \in 1..(d - 1) : disp[b].pc # "none"
                     /\ \A b \in DispIds : disp[b].pc \in {"none", "done"}}

\* the slot of the next connection Accept returns (server.go:213-226: the
\* handler is spawned with go, the loop is back at Accept at once) and of the
\* next task spawned by go s.processMessage (server.go:269-270)
FreeConn == {c \in ConnIds : conns[c].pc = "none" /\ \A b \in 1..(c - 1) : conns[b].pc # "none"}
FreeDisp == {d \in DispIds : disp[d].pc = "none" /\ \A b \in 1..(d - 1) : disp[b].pc # "none"}

\* Listen (server.go:210-228): Accept returned a connection; wg.Add(1) and the
\* handler goroutine.
Accept ==
    /\ phase = "serving"
    /\ lst.loop = "accept"
    /\ NumTasks < MaxTasks
    /\ \E c \in FreeConn :
        /\ conns' = [conns EXCEPT ![c] = [NoConn EXCEPT !.pc = "deadline"]]
        /\ wg' = wg + 1
    /\ UNCHANGED <<phase, conf, ruleset, synced, reload, disp, fileAct, registry, ruleFiles, start, files, lst, tpl>>

\* Listen had it returned on an error of Accept: the deferred wg.Done runs
AcceptFailReturns ==
    /\ phase = "serving"
    /\ lst.loop = "accept"
    /\ lst.fails < MaxAcceptErrs
    /\ NumTasks < MaxTasks
    /\ lst' = [lst EXCEPT !.fails = @ + 1, !.loop = "returned",
                          !.errlog = @ \cup {"failed to accept new connection"}]
    /\ wg' = wg - 1
    /\ UNCHANGED <<phase, conf, ruleset, synced, reload, conns, disp, fileAct, registry, ruleFiles, start, files, tpl>>

\* Accept returned an error: logged, and the loop continues (server.go:215-218).
AcceptFail ==
    /\ phase = "serving"
    /\ lst.loop = "accept"
    /\ lst.fails < MaxAcceptErrs
    /\ NumTasks < MaxTasks
    /\ lst' = [lst EXCEPT !.fails = @ + 1,
                          !.errlog = @ \cup {"failed to accept new connection"}]
    /\ UNCHANGED <<phase, conf, ruleset, synced, reload, conns, disp, fileAct, wg, registry, ruleFiles, start, files, tpl>>

\* ------------------------------------------------------------------ connection handler
\* HandleConnection had Close not been deferred: the return on a failed
\* SetDeadline leaves the connection open
HandlerReturnNoDefer(h, why, lines, closeErr) ==
    IF why = "deadline"
    THEN [h EXCEPT !.pc = "done", !.last = why, !.errlog = @ \cup lines]
    ELSE [h EXCEPT !.pc = "done", !.last = why, !.closes = @ + 1, !.closeErr = closeErr,
                   !.errlog = @ \cup lines \cup
                              (IF closeErr THEN {"failed to close connection"} ELSE {})]

\* The return of HandleConnection: the deferred Close, whose error is logged
\* (server.go:234-238).
HandlerReturn(h, why, lines, closeErr) ==
    [h EXCEPT !.pc = "done", !.last = why, !.closes = @ + 1, !.closeErr = closeErr,
              !.errlog = @ \cup lines \cup
                         (IF closeErr THEN {"failed to close connection"} ELSE {})]

\* the connections had the returning handler closed every open connection
HandlerExitAll(cs, c, why, lines, closeErr) ==
    [b \in DOMAIN cs |->
        IF b = c \/ cs[b].pc \in {"deadline", "parse"}
        THEN [cs[b] EXCEPT !.pc = "done", !.last = why, !.closes = @ + 1,
                           !.closeErr = closeErr, !.errlog = @ \cup lines]
        ELSE cs[b]]

\* the connections after the handler of connection c returned
HandlerExit(cs, c, why, lines, closeErr) ==
    [cs EXCEPT ![c] = HandlerReturn(@, why, lines, closeErr)]

\* What a handler can get when it loads s.conf and a field behind it
\* (server.go:242, 252, 258).  ReloadConfig stores the pointer at
\* server.go:364 in the goroutine of main without any synchronisation: until
\* the stores are visible the handler may still load the old pointer, or
\* the new one with the Config as allocated, before fig.Load filled it.
ObservedConf(cur, pre, sync) == IF sync THEN {cur} ELSE {cur, pre, Config(CfgMissing)}

\* SetDeadline at the top of ReadLoop (server.go:242-246); on failure the
\* handler returns, and its goroutine calls wg.Done (server.go:225)
SetDeadline(c) ==
    /\ phase = "serving"
    /\ conns[c].pc = "deadline"
    /\ \/ \E k \in ObservedConf(conf, reload.preConf, reload.confSynced) :
          /\ conns' = [conns EXCEPT ![c].pc = "parse", ![c].last = "",
                                    ![c].deadline = k.Timeout]
          /\ wg' = wg
       \/ \E closeErr \in BOOLEAN :
          /\ conns' = HandlerExit(conns, c, "deadline",
                                  {"failed to set processing deadline"}, closeErr)
          /\ wg' = wg - 1
    /\ UNCHANGED <<phase, conf, ruleset, synced, reload, disp, fileAct, registry, ruleFiles, start, files, lst, tpl>>

\* the reader had it handed out the frame it returned last once more
NextFrameStale(h) == IF h.parsed = 0 THEN 1 ELSE h.parsed

\* the place in the connection's stream of the message the next ParseReader
\* call returns: the reader of the connection (part_001:25-33) is consumed
\* by the one handler, call after call (server.go:247)
NextFrame(h) == h.parsed + 1

\* ParseReader returned a message: wg.Add(1); go s.processMessage (server.go:269-270)
ParseOk(c) ==
    /\ phase = "serving"
    /\ conns[c].pc = "parse"
    /\ NumTasks < MaxTasks
    /\ \E d \in FreeDisp : \E m \in Msgs :
        /\ disp' = [disp EXCEPT ![d] = [NoDisp EXCEPT !.pc = "start", !.msg = m, !.conn = c,
                                                     !.frame = NextFrame(conns[c]),
                                                     !.afterBad = conns[c].bad]]
        /\ conns' = [conns EXCEPT ![c].pc = "deadline", ![c].last = "msg",
                                   ![c].parsed = NextFrame(conns[c])]
        /\ wg' = wg + 1
    /\ UNCHANGED <<phase, conf, ruleset, synced, reload, fileAct, registry, ruleFiles, start, files, lst, tpl>>

\* ParseReader returned an error (server.go:248-268): a network error or EOF
\* ends the handler, any other error is logged and the loop continues.
ParseErrors == {"neterr", "eof", "malformed"}

\* the switch had every parse error ended the handler
ParseErrorEndsAlways(e) == TRUE

\* the switch had no parse error ended the handler
ParseErrorEndsNever(e) == FALSE

\* the switch of server.go:250-267: the errors on which the handler returns
ParseErrorEnds(e) == e \in {"neterr", "eof"}

\* the lines logged for a parse error, some only with extended logging
ParseErrorLines(e, extended) ==
    IF e = "malformed" THEN {"failed to parse message"}
    ELSE IF ~extended THEN {}
    ELSE IF e = "neterr" THEN {"network error while processing message"}
    ELSE {"message could not be processed"}

ParseFail(c) ==
    /\ phase = "serving"
    /\ conns[c].pc = "parse"
    /\ \E e \in ParseErrors : \E k \in ObservedConf(conf, reload.preConf, reload.confSynced) :
        IF ParseErrorEnds(e)
        THEN \E closeErr \in BOOLEAN :
             /\ conns' = HandlerExit(conns, c, e, ParseErrorLines(e, k.Extended), closeErr)
             /\ wg' = wg - 1
        ELSE /\ conns' = [conns EXCEPT ![c].pc = "deadline", ![c].last = e, ![c].bad = TRUE,
                                       ![c].errlog = @ \cup ParseErrorLines(e, k.Extended)]
             /\ wg' = wg
    /\ UNCHANGED <<phase, conf, ruleset, synced, reload, disp, fileAct, registry, ruleFiles, start, files, lst, tpl>>

\* ------------------------------------------------------------------ dispatch
\* What a dispatch can see behind the pointer it loads from s.ruleset
\* (server.go:282-283).  The pointer is stored at server.go:350 without any
\* synchronisation: until the stores of NewRuleset are visible, a reader may
\* see the object as allocated (empty), before fig.Load filled it.
ObservedRules(rs, sync) == IF sync THEN {rs.Rule} ELSE {rs.Rule, <<>>}

\* the tests of the loop without the host pattern
RuleMatchesBodyOnly(rule, msg) == MatchString(rule.Regexp, msg.Message)

\* the two tests of server.go:284-289
RuleMatches(rule, msg) ==
    /\ MatchString(rule.Regexp, msg.Message)
    /\ rule.HostMatch.nil \/ MatchString(rule.HostMatch, msg.Hostname)

\* the index of the first rule from index i on that the loop does not skip,
\* Len + 1 when there is none
RECURSIVE NextMatch(_, _, _)
NextMatch(rules, msg, i) ==
    IF i > Len(rules) THEN i
    ELSE IF RuleMatches(rules[i], msg) THEN i
    ELSE NextMatch(rules, msg, i + 1)

\* the loop over the rules had it stopped after the first matching rule
AtRuleFirstMatchOnly(t, i) ==
    LET k == NextMatch(t.rules, t.msg, i) IN
    IF i > 1 \/ k > Len(t.rules)
    THEN [t EXCEPT !.pc = "done", !.ri = k, !.todo = {}, !.cur = "", !.mg = <<>>]
    ELSE [t EXCEPT !.pc = "config", !.ri = k, !.todo = registry, !.cur = "",
                   !.mg = FindStringSubmatch(t.rules[k].Regexp, t.msg.Message)]

\* the task at the head of the loop over the rules (server.go:283-290) with
\* the rules before index i done: at the next matching rule, or finished
AtRule(t, i) ==
    LET k == NextMatch(t.rules, t.msg, i) IN
    IF k > Len(t.rules)
    THEN [t EXCEPT !.pc = "done", !.ri = k, !.todo = {}, !.cur = "", !.mg = <<>>]
    ELSE [t EXCEPT !.pc = "config", !.ri = k, !.todo = registry, !.cur = "",
                   !.mg = FindStringSubmatch(t.rules[k].Regexp, t.msg.Message)]

\* one call of an action made by the dispatch, for the rule at index ri;
\* logged says that the error was written to the log with the action's name
\* and the rule's id
Call(ri, a, ph, err) ==
    [ri |-> ri, a |-> a, phase |-> ph, err |-> err, logged |-> (err # NoErr)]

\* the loop over the actions had it returned on the first error
AfterActionReturnOnError(t, a, err) ==
    LET left == t.todo \ {a} IN
    IF err # NoErr
    THEN [t EXCEPT !.pc = "done", !.todo = {}, !.cur = "", !.mg = <<>>]
    ELSE IF left = {} THEN AtRule(t, t.ri + 1)
    ELSE [t EXCEPT !.todo = left, !.cur = "", !.pc = "config"]

\* the end of one turn of the loop over actions.Actions (server.go:291-311),
\* in which action a returned err: whatever err is, the loop goes on
AfterAction(t, a, err) ==
    LET left == t.todo \ {a} IN
    IF left = {} THEN AtRule(t, t.ri + 1)
    ELSE [t EXCEPT !.todo = left, !.cur = "", !.pc = "config"]

\* the action block of the rule has an entry for action a
Names(rule, a) == a = "file" /\ rule.Actions.file.t # "nil"

\* the loop had it called Process only for the actions the rule names
AfterConfigNamedOnly(t, a, err) ==
    IF err # NoErr \/ ~Names(t.rules[t.ri], a) THEN AfterAction(t, a, err)
    ELSE [t EXCEPT !.pc = "process", !.cur = a]

\* the loop had it called Process whatever Config returned
AfterConfigProcessAlways(t, a, err) == [t EXCEPT !.pc = "process", !.cur = a]

\* after action.Config returned err (server.go:293-299): an error ends the
\* turn of the loop (continue), else Process is called next
AfterConfig(t, a, err) ==
    IF err # NoErr THEN AfterAction(t, a, err)
    ELSE [t EXCEPT !.pc = "process", !.cur = a]

\* the task had it needed the connection its message came from
RunsWhileConnOpen(cs, t) == t.conn = 0 \/ cs[t.conn].pc # "done"

\* go s.processMessage(logMessage) (server.go:269-270): the task is a
\* goroutine of its own and holds the message by value; its steps wait for
\* no handler and no connection
Runs(cs, t) == TRUE

\* processMessage had it no deferred wg.Done
DoneNever(t) == 0

\* the deferred wg.Done of processMessage (server.go:281)
Done(t) == IF t.pc = "done" THEN 1 ELSE 0

\* processMessage had it ranged over s.ruleset.Rule without the nil test: the
\* nil pointer is dereferenced and the goroutine panics
DispatchBeginNoNilCheck(d) ==
    /\ disp[d].pc = "start"
    /\ \E seen \in ObservedRules(ruleset, synced) :
        LET t0 == [disp[d] EXCEPT !.rs = ruleset, !.rules = seen,
                                 !.rn = reload.n, !.rpc = reload.pc]
            t == IF ruleset.ver = 0 THEN [t0 EXCEPT !.pc = "panic"] ELSE AtRule(t0, 1) IN
        /\ disp' = [disp EXCEPT ![d] = t]
        /\ wg' = wg - Done(t)
    /\ UNCHANGED <<phase, conf, ruleset, synced, reload, conns, fileAct, registry, ruleFiles, start, files, lst, tpl>>

\* processMessage loads s.ruleset (server.go:282-283) and walks to the first
\* matching rule; a nil ruleset ends the task.
DispatchBegin(d) ==
    /\ disp[d].pc = "start"
    /\ Runs(conns, disp[d])
    /\ \E seen \in (IF ruleset.ver = 0 THEN {<<>>} ELSE ObservedRules(ruleset, synced)) :
        LET t == AtRule([disp[d] EXCEPT !.rs = ruleset, !.rules = seen,
                                        !.rn = reload.n, !.rpc = reload.pc], 1) IN
        /\ disp' = [disp EXCEPT ![d] = t]
        /\ wg' = wg - Done(t)
    /\ UNCHANGED <<phase, conf, ruleset, synced, reload, conns, fileAct, registry, ruleFiles, start, files, lst, tpl>>

\* action.Config(rule.Actions) for the next action the map iteration yields;
\* on error: log and continue with the next action (server.go:291-297)
DispatchConfig(d) ==
    /\ disp[d].pc = "config"
    /\ Runs(conns, disp[d])
    /\ \E a \in disp[d].todo :
        LET t == disp[d]
            rule == t.rules[t.ri]
            r == IF a = "file" THEN FileConfig(fileAct, rule.Actions)
                 ELSE [f |-> fileAct, err |-> MockConfig(rule.Actions)]
            c == Call(t.ri, a, "Config", r.err)
            t1 == [t EXCEPT !.calls = @ \cup {c}]
            t2 == AfterConfig(t1, a, r.err)
        IN
        /\ fileAct' = r.f
        /\ disp' = [disp EXCEPT ![d] = t2]
        /\ wg' = wg - Done(t2)
    /\ UNCHANGED <<phase, conf, ruleset, synced, reload, conns, registry, ruleFiles, start, files, lst, tpl>>

\* action.Process(logMessage, matchGroup); an error is logged and the loop
\* continues (server.go:300-311)
DispatchProcess(d) ==
    /\ disp[d].pc = "process"
    /\ Runs(conns, disp[d])
    /\ \E io \in (IF disp[d].cur = "file" THEN IOResults ELSE {"ok"}) :
        LET t == disp[d]
            rule == t.rules[t.ri]
            r == IF t.cur = "file" THEN FileProcess(fileAct, t.msg, t.mg, io)
                 ELSE [wrote |-> FALSE, used |-> fileAct, err |-> MockProcess(t.msg, t.mg)]
            c == Call(t.ri, t.cur, "Process", r.err)
            t2 == AfterAction([t EXCEPT !.calls = @ \cup {c}], t.cur, r.err)
        IN
        /\ disp' = [disp EXCEPT ![d] = t2]
        /\ wg' = wg - Done(t2)
        /\ files' = IF t.cur = "file" THEN FileWrite(files, fileAct, t.msg, t.mg, io) ELSE files
    /\ UNCHANGED <<phase, conf, ruleset, synced, reload, conns, fileAct, registry, ruleFiles, start, lst, tpl>>

\* fileHandle.WriteString(tpl) (part_005:90) on a handle that was just
\* opened: with O_APPEND the text goes behind the end of the file, else at
\* offset 0 over what is there
WriteString(content, append, text) ==
    IF append THEN content \o text
    ELSE text \o SubSeq(content, Len(text) + 1, Len(content))

\* File.Process up to os.OpenFile (part_005:68-84): nothing to do when the
\* instance is not enabled; else the file is opened with the flags of the
\* instance, O_TRUNC emptying it
FileOpen(d) ==
    /\ disp[d].pc = "process"
    /\ Runs(conns, disp[d])
    /\ disp[d].cur = "file"
    /\ \E io \in IOResults :
        LET t == disp[d]
            f == fileAct
            err == IF ~f.Enabled THEN NoErr
                   ELSE "failed to open file for writing in file action"
            t1 == [t EXCEPT !.calls = @ \cup {Call(t.ri, "file", "Process", err)}]
            t2 == IF ~f.Enabled \/ io = "open" \/ f.FilePath = ""
                  THEN AfterAction(t1, "file", err)
                  ELSE [t EXCEPT !.pc = "write",
                                 !.fd = [path |-> f.FilePath, append |-> ~f.Overwrite]]
        IN
        /\ disp' = [disp EXCEPT ![d] = t2]
        /\ wg' = wg - Done(t2)
        /\ files' = IF t2.pc = "write" /\ f.Overwrite
                     THEN [files EXCEPT ![f.FilePath] = ""] ELSE files
    /\ UNCHANGED <<phase, conf, ruleset, synced, reload, conns, fileAct, registry, ruleFiles, start, lst, tpl>>

\* File.Process from template.Compile on (part_005:86-101): the template
\* of the instance is compiled; its error is returned, else the text is
\* written through the handle, which is closed on return
FileWriteString(d) ==
    /\ disp[d].pc = "write"
    /\ Runs(conns, disp[d])
    /\ LET t == disp[d]
           c == Compile(t.msg, t.mg, fileAct.OutputTemplate, Epoch)
           t1 == [t EXCEPT !.calls = @ \cup {Call(t.ri, "file", "Process", c.err)},
                           !.fd = NoFd]
           t2 == AfterAction(t1, "file", c.err)
       IN
       /\ disp' = [disp EXCEPT ![d] = t2]
       /\ wg' = wg - Done(t2)
       /\ files' = IF c.err # NoErr THEN files
                    ELSE [files EXCEPT ![t.fd.path] = WriteString(@, t.fd.append, c.out)]
    /\ UNCHANGED <<phase, conf, ruleset, synced, reload, conns, fileAct, registry, ruleFiles, start, lst, tpl>>

\* the calls of Compile on one input; each call stands with the time it ran at
MaxRuns == 2

\* the clock goes on
Tick ==
    /\ tpl.now < MaxClock
    /\ tpl' = [tpl EXCEPT !.now = @ + 1]
    /\ UNCHANGED <<phase, conf, ruleset, synced, reload, conns, disp, fileAct, wg, registry, ruleFiles, start, files, lst>>

\* one more call of template.Compile (template.go:123-150) on the input
Render ==
    /\ Len(tpl.runs) < MaxRuns
    /\ tpl' = [tpl EXCEPT !.runs = Append(@, [at |-> tpl.now,
                                                res |-> Compile(tpl.msg, tpl.mg, tpl.ot, tpl.now)])]
    /\ UNCHANGED <<phase, conf, ruleset, synced, reload, conns, disp, fileAct, wg, registry, ruleFiles, start, files, lst>>

\* ------------------------------------------------------------------ specification
Next ==
    \/ init
    \/ main
    \/ New
    \/ Run
    \/ RunWithListener
    \/ ReloadConfigLoad
    \/ ReloadConfigRules
    \/ MemSync
    \/ Accept
    \/ AcceptFail
    \/ \E c \in ConnIds : SetDeadline(c)
    \/ \E c \in ConnIds : ParseOk(c)
    \/ \E c \in ConnIds : ParseFail(c)
    \/ \E d \in DispIds : DispatchBegin(d)
    \/ \E d \in DispIds : DispatchConfig(d)
    \/ \E d \in DispIds : DispatchProcess(d)

Spec == Init /\ [][Next]_vars

NextLoad ==
    \/ init
    \/ main
    \/ New
    \/ ReloadConfigLoad
    \/ ReloadConfigRules
    \/ MemSync

SpecLoad == InitLoad /\ [][NextLoad]_vars

NextNew ==
    \/ init
    \/ main
    \/ New
    \/ Run
    \/ RunWithListener
    \/ ReloadConfigLoad
    \/ ReloadConfigRules
    \/ MemSync

SpecNew == InitNew /\ [][NextNew]_vars

NextListener ==
    \/ Run
    \/ RunWithListener

SpecListener == InitListener /\ [][NextListener]_vars

\* the dispatch with the steps of File.Process apart
NextFile ==
    \/ \E d \in DispIds : DispatchBegin(d)
    \/ \E d \in DispIds : DispatchConfig(d)
    \/ \E d \in DispIds : FileOpen(d)
    \/ \E d \in DispIds : FileWriteString(d)

SpecFile == InitFile /\ [][NextFile]_vars

NextTemplate ==
    \/ Tick
    \/ Render

SpecTemplate == InitTemplate /\ [][NextTemplate]_vars

\* the server from start-up on, without SIGHUP
NextOneRule ==
    \/ init
    \/ main
    \/ New
    \/ Run
    \/ RunWithListener
    \/ Accept
    \/ AcceptFail
    \/ \E c \in ConnIds : SetDeadline(c)
    \/ \E c \in ConnIds : ParseOk(c)
    \/ \E c \in ConnIds : ParseFail(c)
    \/ \E d \in DispIds : DispatchBegin(d)
    \/ \E d \in DispIds : DispatchConfig(d)
    \/ \E d \in DispIds : DispatchProcess(d)

SpecOneRule == InitOneRule /\ [][NextOneRule]_vars

\* the serving server: accept loop, handlers, dispatch tasks and SIGHUP
NextServe ==
    \/ ReloadConfigLoad
    \/ ReloadConfigRules
    \/ MemSync
    \/ Accept
    \/ \E c \in ConnIds : SetDeadline(c)
    \/ \E c \in ConnIds : ParseOk(c)
    \/ \E c \in ConnIds : ParseFail(c)
    \/ \E d \in DispIds : DispatchBegin(d)
    \/ \E d \in DispIds : DispatchConfig(d)
    \/ \E d \in DispIds : DispatchProcess(d)

\* The Go scheduler runs every runnable goroutine: a dispatch task that can
\* take its next step takes it.  Nothing is assumed of the network (Accept
\* and ParseReader may block for ever) nor of SIGHUP.
FairDispatch ==
    \A d \in DispIds :
        /\ WF_vars(DispatchBegin(d))
        /\ WF_vars(DispatchConfig(d))
        /\ WF_vars(DispatchProcess(d))

SpecServe == InitServe /\ [][NextServe]_vars /\ FairDispatch

NextDispatch ==
    \/ \E d \in DispIds : DispatchBegin(d)
    \/ \E d \in DispIds : DispatchConfig(d)
    \/ \E d \in DispIds : DispatchProcess(d)

SpecDispatch == InitDispatch /\ [][NextDispatch]_vars


\* ------------------------------------------------------------------ properties
Spawned == {d \in DispIds : disp[d].pc # "none"}
Loaded == {d \in DispIds : disp[d].pc \notin {"none", "start"}}
Finished == {d \in DispIds : disp[d].pc = "done"}

\* the body pattern of the rule matches the message body
BodyHit(rule, msg) == msg.Message \in DOMAIN rule.Regexp.re
\* the rule has no host pattern, or it matches the hostname
HostHit(rule, msg) == rule.HostMatch.nil \/ msg.Hostname \in DOMAIN rule.HostMatch.re

\* task d called phase ph of action a for the rule at index k
Called(d, k, a, ph) ==
    \E c \in disp[d].calls : c.ri = k /\ c.a = a /\ c.phase = ph

\* every registered action was invoked for the rule at index k: Config, and
\* Process when Config returned no error
Invoked(d, k) ==
    \A a \in registry :
        /\ Called(d, k, a, "Config")
        /\ (\A c \in disp[d].calls : c.ri = k /\ c.a = a /\ c.phase = "Config" /\ c.err = NoErr
                => Called(d, k, a, "Process"))

\* a ruleset source NewRuleset must refuse
InvalidSource(src) ==
    \/ ~src.exists
    \/ ~src.loadable
    \/ \E i, j \in 1..Len(src.Rule) :
          i # j /\ Len(src.Rule[i].ID) = Len(src.Rule[j].ID)
          /\ \A n \in 1..Len(src.Rule[i].ID) :
                FoldChar(src.Rule[i].ID[n]) = FoldChar(src.Rule[j].ID[n])

\* the last ReloadConfig call returned, having read the rule file
ReloadReadRules == reload.pc = "idle" /\ reload.stage = "ruleset"

\* C1: when ReloadConfig read an invalid ruleset source it returned an error,
\* the server's ruleset is the one that was active before the call, and every
\* dispatch that loaded the ruleset after the call returned works on that one.
C1_InvalidRulesetReloadKeepsOld ==
    (ReloadReadRules /\ InvalidSource(reload.rsSrc)) =>
        /\ reload.err # NoErr
        /\ ruleset = reload.preRuleset
        /\ \A d \in Loaded :
              (disp[d].rn = reload.n /\ disp[d].rpc = "idle") => disp[d].rs = reload.preRuleset

C1_Witness ==
    /\ ReloadReadRules /\ InvalidSource(reload.rsSrc)
    /\ \E d \in Finished :
          /\ disp[d].rn = reload.n /\ disp[d].rpc = "idle"
          /\ disp[d].calls # {}

\* C2 (as claimed): when ReloadConfig returned an error, both the server's
\* configuration and its ruleset are the ones from before the call.
C2_FailedReloadKeepsConfAndRuleset ==
    (reload.pc = "idle" /\ reload.n > 0 /\ reload.err # NoErr) =>
        (conf = reload.preConf /\ ruleset = reload.preRuleset)

\* C3 (as claimed): every dispatch works on the complete rule list of the one
\* ruleset whose pointer it loaded, never on a partially constructed ruleset.
C3_DispatchSeesWholeRuleset ==
    \A d \in Loaded : disp[d].rules = disp[d].rs.Rule

\* the fields a File instance has when configured from this rule alone
OwnFileConfig(rule) ==
    LET c == rule.Actions.file IN
    IF c.t = "map"
    THEN [Enabled |-> TRUE, FilePath |-> c.output_filepath.v,
          OutputTemplate |-> c.output_template.v,
          Overwrite |-> (c.overwrite.t = "bool" /\ c.overwrite.v = "true")]
    ELSE File0

\* C4 (as claimed): whenever a dispatch is about to call Process of the file
\* action for a matched rule, the shared instance holds that rule's own
\* configuration (output path, template, overwrite flag).
C4_ProcessUsesOwnRuleConfig ==
    \A d \in DispIds :
        (disp[d].pc = "process" /\ disp[d].cur = "file") =>
            fileAct = OwnFileConfig(disp[d].rules[disp[d].ri])

\* C5: when a dispatch has finished, every rule of its ruleset whose body
\* pattern matches the message (and whose host pattern, if any, matches the
\* hostname) had all registered actions invoked, not only the first such rule.
C5_EveryMatchingRuleFires ==
    \A d \in Finished : \A k \in 1..Len(disp[d].rules) :
        (BodyHit(disp[d].rules[k], disp[d].msg) /\ HostHit(disp[d].rules[k], disp[d].msg))
            => Invoked(d, k)

C5_Witness ==
    \E d \in Finished : \E j, k \in 1..Len(disp[d].rules) :
        /\ j # k
        /\ \A a \in Actions : Called(d, j, a, "Process") /\ Called(d, k, a, "Process")

\* C6: no action is ever called for a rule with a host pattern on a message
\* whose hostname the pattern does not match.
C6_HostMismatchNeverDispatched ==
    \A d \in DispIds : \A c \in disp[d].calls :
        LET rule == disp[d].rules[c.ri] IN
        ~rule.HostMatch.nil => disp[d].msg.Hostname \in DOMAIN rule.HostMatch.re

C6_Witness ==
    \E d \in Finished : \E k \in 1..Len(disp[d].rules) :
        /\ ~disp[d].rules[k].HostMatch.nil
        /\ BodyHit(disp[d].rules[k], disp[d].msg)
        /\ ~HostHit(disp[d].rules[k], disp[d].msg)
        /\ \A c \in disp[d].calls : c.ri # k

\* C7: an error returned by an action is logged and stops nothing: the task
\* that got it still invokes every registered action for that rule and for
\* every later matching rule, and every other finished task is complete too.
C7_ActionErrorStopsNothing ==
    \A d \in DispIds : \A c \in disp[d].calls :
        c.err # NoErr =>
            /\ c.logged
            /\ disp[d].pc \in {"config", "process", "done"}
            /\ disp[d].pc = "done" =>
                  \A k \in c.ri..Len(disp[d].rules) :
                      (BodyHit(disp[d].rules[k], disp[d].msg)
                       /\ HostHit(disp[d].rules[k], disp[d].msg)) => Invoked(d, k)
            /\ \A e \in Finished \ {d} : \A k \in 1..Len(disp[e].rules) :
                  (BodyHit(disp[e].rules[k], disp[e].msg)
                   /\ HostHit(disp[e].rules[k], disp[e].msg)) => Invoked(e, k)

C7_Witness ==
    \E d \in Finished : \E c \in disp[d].calls :
        /\ c.err # NoErr /\ c.phase = "Process"
        /\ \E k \in (c.ri + 1)..Len(disp[d].rules) : Called(d, k, "file", "Process")
        /\ Called(d, c.ri, "mock", "Process")
        /\ \E e \in Finished \ {d} : disp[e].calls # {}

\* C8: after a malformed frame the handler is back at the top of its read
\* loop with the connection open, and a frame parsed on that connection,
\* also after a malformed one, has a dispatch task.
C8_MalformedFrameKeepsConnection ==
    \A c \in ConnIds :
        /\ conns[c].last = "malformed" => (conns[c].pc = "deadline" /\ conns[c].closes = 0)
        /\ conns[c].last = "msg" =>
              \E d \in Spawned : disp[d].conn = c /\ disp[d].afterBad = conns[c].bad

C8_Witness ==
    \E d \in Finished :
        /\ disp[d].afterBad
        /\ disp[d].calls # {}
        /\ conns[disp[d].conn].closes = 0

\* the handler of connection c returns in this step
Exits(c) == conns[c].pc \in {"deadline", "parse"} /\ conns'[c].pc = "done"

\* C9: the step in which a handler ends on a transport failure changes that
\* connection only: every other connection and its handler, every dispatch
\* task and the accept loop are as before.
C9_TransportFailureIsLocal ==
    [][\A c \in ConnIds :
          Exits(c) =>
              /\ \A b \in ConnIds \ {c} : conns'[b] = conns[b]
              /\ disp' = disp
              /\ phase' = "serving"
              /\ conns'[c].last \in {"deadline", "neterr", "eof"}]_vars

C9_Witness ==
    \E c, b \in ConnIds :
        /\ conns[c].pc = "done" /\ conns[c].last \in {"neterr", "eof"}
        /\ conns[b].pc = "parse" /\ conns[b].last = ""
        /\ \E d \in Spawned : disp[d].conn = b
        /\ phase = "serving"

\* C10: a connection is closed exactly once, when its handler has returned
\* (on each of the exit paths) and never while the handler is in its loop;
\* a close error is logged and the server goes on.
C10_ClosedExactlyOnce ==
    \A c \in ConnIds :
        /\ conns[c].closes \in {0, 1}
        /\ conns[c].pc = "done" <=> conns[c].closes = 1
        /\ conns[c].pc \in {"none", "deadline", "parse"} => conns[c].closes = 0
        /\ conns[c].closeErr =>
              ("failed to close connection" \in conns[c].errlog /\ phase = "serving")

C10_Witness ==
    /\ \E c \in ConnIds : conns[c].pc = "done" /\ conns[c].last = "deadline" /\ conns[c].closeErr
    /\ \E c \in ConnIds : conns[c].pc = "done" /\ conns[c].last \in {"neterr", "eof"}

\* C11: the accept loop never waits on a handler: while the server serves,
\* Accept can return the next connection whatever the handlers of the earlier
\* connections are doing.
C11_AcceptNeverWaitsOnHandler ==
    (phase = "serving" /\ NumTasks < MaxTasks /\ NumConns < MaxConns) => ENABLED Accept

C11_Witness ==
    \E c, b \in ConnIds :
        /\ c < b
        /\ conns[c].pc = "parse"
        /\ conns[b].pc \in {"deadline", "parse"}

\* C12: the read loop never waits on a dispatch: a handler that is at
\* SetDeadline or at ParseReader can take that step, and can hand over the
\* next message, whatever the dispatch tasks spawned before are doing.
C12_ReadLoopNeverWaitsOnDispatch ==
    \A c \in ConnIds :
        /\ (phase = "serving" /\ conns[c].pc = "deadline") => ENABLED SetDeadline(c)
        /\ (phase = "serving" /\ conns[c].pc = "parse") => ENABLED ParseFail(c)
        /\ (phase = "serving" /\ conns[c].pc = "parse"
              /\ NumTasks < MaxTasks /\ NumDisp < MaxMsgs) => ENABLED ParseOk(c)

C12_Witness ==
    \E d, e \in DispIds :
        /\ d < e
        /\ disp[d].conn = disp[e].conn
        /\ disp[d].pc \in {"start", "config", "process"}
        /\ disp[e].pc # "none"
        /\ conns[disp[e].conn].pc = "parse"

\* two rules of the file have ids that differ at most in the case of letters
DuplicateIds(src) ==
    \E i, j \in 1..Len(src.Rule) :
        /\ i # j
        /\ Len(src.Rule[i].ID) = Len(src.Rule[j].ID)
        /\ \A n \in 1..Len(src.Rule[i].ID) :
              FoldChar(src.Rule[i].ID[n]) = FoldChar(src.Rule[j].ID[n])

\* C13: for every rule file with two ids equal up to case NewRuleset returns
\* an error and no ruleset; New on such a file ends the start-up with nothing
\* installed, and a reload from such a file leaves the server's ruleset as it was.
C13_DuplicateIdInstallsNothing ==
    /\ \A src \in ruleFiles :
          DuplicateIds(src) =>
              /\ NewRuleset(src, 1).err # NoErr
              /\ NewRuleset(src, 1).ruleset = NilRuleset
    /\ (start.step = "New" /\ DuplicateIds(start.rsSrc)) =>
          (start.err # NoErr /\ phase = "exited" /\ ruleset = NilRuleset)
    /\ (ReloadReadRules /\ DuplicateIds(reload.rsSrc)) =>
          (reload.err # NoErr /\ ruleset = reload.preRuleset)

C13_Witness ==
    /\ ReloadReadRules
    /\ Len(reload.rsSrc.Rule) = 2
    /\ reload.rsSrc.Rule[1].ID # reload.rsSrc.Rule[2].ID
    /\ DuplicateIds(reload.rsSrc)
    /\ reload.err # NoErr
    /\ ruleset = reload.preRuleset
    /\ Len(ruleset.Rule) = 2

\* C14 (as claimed): a dispatch that loaded s.ruleset after a successful
\* ReloadConfig returned ranges over the rules of the new ruleset, all of them.
C14_DispatchAfterReloadSeesNewRules ==
    \A d \in Loaded :
        (ReloadReadRules /\ reload.err = NoErr
         /\ disp[d].rn = reload.n /\ disp[d].rpc = "idle") =>
            (disp[d].rs = ruleset /\ disp[d].rules = ruleset.Rule)

\* C15 (as claimed): the actions of a rule are called in one fixed order, so
\* two dispatches of the same message against the same rules that are at the
\* same rule with as many actions still to call have the same actions left.
C15_ActionOrderIsDeterministic ==
    \A d, e \in DispIds :
        (/\ disp[d].pc \in {"config", "process"}
         /\ disp[e].pc \in {"config", "process"}
         /\ disp[d].msg = disp[e].msg
         /\ disp[d].rules = disp[e].rules
         /\ disp[d].ri = disp[e].ri
         /\ Cardinality(disp[d].todo) = Cardinality(disp[e].todo)) =>
            disp[d].todo = disp[e].todo

\* Process of the file action returned nil in task d
FileOk(d) ==
    \E c \in disp[d].calls : c.a = "file" /\ c.phase = "Process" /\ c.err = NoErr

\* the output file the first rule of the server's ruleset names
OnePath == ruleset.Rule[1].Actions.file.output_filepath.v

\* the text the one rule's template renders for the message of task d
OneText(d) ==
    disp[d].msg.Hostname \o " "
        \o FindStringSubmatch(ruleset.Rule[1].Regexp, disp[d].msg.Message)[1] \o "\n"

\* the orders in which the members of S can follow one another
Orderings(S) ==
    {o \in [1..Cardinality(S) -> S] : \A i, j \in DOMAIN o : i # j => o[i] # o[j]}

\* the texts of ts put one behind the other
RECURSIVE Cat(_)
Cat(ts) == IF Len(ts) = 0 THEN "" ELSE Head(ts) \o Cat(Tail(ts))

C17_NilRulesetDispatchDoesNothing ==
    /\ \A d \in Loaded :
          disp[d].rs = NilRuleset =>
              (disp[d].pc = "done" /\ disp[d].calls = {} /\ disp[d].rules = <<>>)
    /\ ruleset = NilRuleset =>
          /\ fileAct = File0
          /\ \A p \in Paths : files[p] = ""
          /\ wg = 1 + Cardinality({d \in DispIds : disp[d].pc = "start"})

C17_Witness ==
    /\ ruleset = NilRuleset
    /\ \A d \in DispIds : disp[d].pc = "done" /\ disp[d].calls = {}
    /\ \E d \in DispIds : disp[d].msg.Message = "disk full"
    /\ wg = 1

\* the tasks spawned for messages of connection c
TasksOf(c) == {d \in Spawned : disp[d].conn = c}

\* C18: the tasks of one connection carry the messages parsed from it, each
\* once and none missing, and a task spawned earlier carries an earlier
\* message; nothing orders the ends of the tasks (the witness).
C18_SpawnedInArrivalOrder ==
    \A c \in ConnIds :
        /\ {disp[d].frame : d \in TasksOf(c)} = 1..conns[c].parsed
        /\ \A d, e \in TasksOf(c) : d < e => disp[d].frame < disp[e].frame

C18_Witness ==
    \E c \in ConnIds : \E d, e \in TasksOf(c) :
        /\ disp[d].frame < disp[e].frame
        /\ disp[e].pc = "done" /\ disp[e].calls # {}
        /\ disp[d].pc = "start"

\* the configuration file NewConfig rejects
InvalidConfig(src) == ~src.exists \/ ~src.loadable \/ src.ptype \notin ParserTypes

\* C19: a start-up whose rule file cannot be loaded, whose parser type is
\* unknown or that finds no action plugin registered ends with an error
\* (of New, or of NewConfig before it) and the process exits: Run is never
\* reached, nothing is counted in the WaitGroup, and a server that runs has
\* been returned by New without error.
C19_StartupFailureIsFatal ==
    /\ (start.step = "NewConfig" /\ InvalidConfig(start.cfgSrc))
          => (start.err # NoErr /\ phase = "exited")
    /\ (start.step = "New" /\ (\/ InvalidSource(start.rsSrc)
                                \/ conf.ptype \notin ParserTypes
                                \/ registry = {}))
          => (start.err # NoErr /\ phase = "exited")
    /\ start.err # NoErr => (phase = "exited" /\ wg = 0 /\ reload.n = 0)
    /\ phase \in {"ready", "listening", "serving"} => (start.step = "New" /\ start.err = NoErr)

C19_Witness ==
    /\ start.step = "New"
    /\ ~InvalidSource(start.rsSrc)
    /\ conf.ptype \in ParserTypes
    /\ registry = {}
    /\ start.err = "no action plugins found/configured"
    /\ phase = "exited"

\* the goroutines the WaitGroup was told of that have not ended: the accept
\* loop (server.go:203-204), the handlers (server.go:222-226), the
\* dispatch tasks (server.go:269-270)
RunningListen == IF phase = "serving" THEN 1 ELSE 0
RunningHandlers == {c \in ConnIds : conns[c].pc \notin {"none", "done"}}
RunningDispatches == {d \in DispIds : disp[d].pc \notin {"none", "done"}}

\* C20: the counter of the WaitGroup is the number of accept-loop, handler
\* and dispatch goroutines that were spawned and have not ended, in every
\* state (so every spawn adds one and every end takes one off, once), and
\* it is never negative.
C20_WaitGroupCountsRunningTasks ==
    /\ wg = RunningListen + Cardinality(RunningHandlers) + Cardinality(RunningDispatches)
    /\ wg >= 0

C20_Witness ==
    /\ wg = 3
    /\ RunningHandlers # {}
    /\ RunningDispatches # {}
    /\ \E d \in DispIds : disp[d].pc = "done"

\* C21: once main has begun, no step changes the registry: it is filled by
\* the init functions alone, and the server serves with the registry it
\* was started with.
C21_RegistryFixedAfterInit == [][phase # "boot" => registry' = registry]_vars

C21_Witness ==
    /\ phase = "serving"
    /\ registry = Actions
    /\ \E d \in DispIds : disp[d].calls # {}

\* C22: NewListener for the TLS type with an empty certificate path or an
\* empty key path returns ErrCertConfigEmpty and has made no call that
\* loads a key pair or binds a socket.
C22_EmptyCertConfigFailsBeforeIO ==
    (/\ lst.res # NoListen
     /\ lst.cfg.Type = ListenerTLS
     /\ (lst.cfg.CertPath = "" \/ lst.cfg.KeyPath = ""))
        => (lst.res.err = ErrCertConfigEmpty /\ lst.res.io = <<>> /\ phase = "exited")

C22_Witness ==
    /\ lst.cfg.Type = ListenerTLS
    /\ lst.cfg.CertPath # ""
    /\ lst.cfg.KeyPath = ""
    /\ lst.res.err = ErrCertConfigEmpty

\* task d takes a step of File.Process: the step up to OpenFile, or the one
\* from Compile on
ProcessStep(d) ==
    /\ disp[d].cur = "file"
    /\ disp[d].pc \in {"process", "write"}
    /\ disp'[d] # disp[d]

\* the Process call of task d has returned in this step, with error e
ProcessReturns(d, e) ==
    /\ disp'[d].pc # "write"
    /\ \E c \in disp'[d].calls \ disp[d].calls :
          c.a = "file" /\ c.phase = "Process" /\ c.err = e

\* C23: Compile of a template that does not parse returns the error with
\* the empty text, and a Process call of the enabled file action on such a
\* template leaves every output file as it was and returns that error.
C23_BadTemplateWritesNothing ==
    [][\A d \in DispIds :
          LET c == Compile(disp[d].msg, disp[d].mg, fileAct.OutputTemplate, Epoch) IN
          (/\ ProcessStep(d)
           /\ fileAct.Enabled
           /\ fileAct.OutputTemplate \notin {"", "T1", "T2", "TNow"})
             => /\ c.err = "failed to create template" /\ c.out = ""
                /\ files' = files
                /\ disp[d].pc = "write" => ProcessReturns(d, c.err)]_vars

C25_UnnamedActionsAreInvokedToo ==
    \A d \in DispIds :
        /\ \A c \in disp[d].calls :
              c.phase = "Process" =>
                  \E b \in disp[d].calls :
                      b.ri = c.ri /\ b.a = c.a /\ b.phase = "Config" /\ b.err = NoErr
        /\ disp[d].pc = "done" =>
              \A k \in 1..Len(disp[d].rules) : \A a \in registry :
                  (BodyHit(disp[d].rules[k], disp[d].msg)
                   /\ HostHit(disp[d].rules[k], disp[d].msg)) =>
                      /\ Called(d, k, a, "Config")
                      /\ ~Names(disp[d].rules[k], a) => Called(d, k, a, "Process")

C25_Witness ==
    \E d \in Finished : \E k \in 1..Len(disp[d].rules) :
        /\ disp[d].rules[k] = RuleNoFile
        /\ \A a \in Actions : a \in registry /\ Called(d, k, a, "Process")

\* the rule task d is at
RuleAt(d) == disp[d].rules[disp[d].ri]

\* C26: a Process call of the file action for a rule without a file entry
\* changes no output file, whatever was configured on the instance before.
C26_NoFileEntryWritesNothing ==
    [][\A d \in DispIds :
          (ProcessStep(d) /\ ~Names(RuleAt(d), "file")) => files' = files]_vars

\* C27: a Process call for a rule with a file entry opens the file with
\* O_TRUNC when that entry sets overwrite to true and with O_APPEND
\* otherwise, whatever rule was processed on the instance before.
C27_OverwriteOnlyByOwnRule ==
    [][\A d \in DispIds :
          (/\ ProcessStep(d)
           /\ Names(RuleAt(d), "file")
           /\ disp[d].pc = "process" /\ disp'[d].pc = "write")
             => disp'[d].fd.append = ~OwnFileConfig(RuleAt(d)).Overwrite]_vars

\* C28: when a Process call has written its text and returns no error, the
\* file it opened with O_TRUNC holds exactly that text, and the file it
\* opened with O_APPEND holds what it held before the write and then that
\* text.
C28_ContentAfterWrite ==
    [][\A d \in DispIds :
          LET c == Compile(disp[d].msg, disp[d].mg, fileAct.OutputTemplate, Epoch)
              p == disp[d].fd.path IN
          (ProcessStep(d) /\ disp[d].pc = "write" /\ ProcessReturns(d, NoErr))
             => files'[p] = IF disp[d].fd.append THEN files[p] \o c.out ELSE c.out]_vars

\* C29: a Config call that returned an error is logged with the action and
\* the rule, Process is not called for that action and rule, and the task
\* goes on: when it has finished, the other registered actions were invoked
\* for that rule and all of them for every later matching rule.
C29_ConfigErrorSkipsProcessOnly ==
    \A d \in DispIds : \A c \in disp[d].calls :
        (c.phase = "Config" /\ c.err # NoErr) =>
            /\ c.logged
            /\ ~Called(d, c.ri, c.a, "Process")
            /\ ~(disp[d].pc \in {"process", "write"} /\ disp[d].ri = c.ri /\ disp[d].cur = c.a)
            /\ disp[d].pc = "done" =>
                  /\ \A a \in registry \ {c.a} : Called(d, c.ri, a, "Config")
                  /\ \A k \in (c.ri + 1)..Len(disp[d].rules) :
                        (BodyHit(disp[d].rules[k], disp[d].msg)
                         /\ HostHit(disp[d].rules[k], disp[d].msg)) => Invoked(d, k)

C29_Witness ==
    \E d \in Finished : \E c \in disp[d].calls :
        /\ c.phase = "Config" /\ c.err # NoErr /\ c.a = "file"
        /\ Called(d, c.ri, "mock", "Process")
        /\ \E k \in (c.ri + 1)..Len(disp[d].rules) : Called(d, k, "file", "Process")

\* the Config call of the file action by task d has returned an error in this step
ConfigFails(d) ==
    /\ disp[d].pc = "config"
    /\ \E c \in disp'[d].calls \ disp[d].calls :
          c.a = "file" /\ c.phase = "Config" /\ c.err # NoErr

\* C30: a Config call of the file action that returns an error leaves the
\* fields of the instance (Enabled, FilePath, OutputTemplate, Overwrite) as
\* they were before the call.
C30_FailedConfigChangesNothing ==
    [][\A d \in DispIds : ConfigFails(d) => fileAct' = fileAct]_vars

\* the handler of connection c got a network error or the end of the stream
\* from ParseReader
Terminated(c) == conns[c].last \in {"neterr", "eof"}

\* every rule that matches the message of task d had every registered
\* action invoked
Complete(d) ==
    \A k \in 1..Len(disp[d].rules) :
        (BodyHit(disp[d].rules[k], disp[d].msg) /\ HostHit(disp[d].rules[k], disp[d].msg))
            => Invoked(d, k)

\* task d can take its next step
CanStep(d) == ENABLED (DispatchBegin(d) \/ DispatchConfig(d) \/ DispatchProcess(d))

\* C31: once ParseReader returned a network error or EOF on a connection,
\* its handler has returned and stays so: no step parses a frame from the
\* connection or spawns a task for it, and no task of it is lost.  Every
\* task spawned for it before can take its next step until it has finished,
\* and has then invoked all registered actions for every rule of the ruleset
\* it loaded that matches its message.
C31_TerminationStopsParsingOnly ==
    /\ [](\A c \in ConnIds :
             Terminated(c) =>
                 /\ conns[c].pc = "done"
                 /\ \A d \in TasksOf(c) :
                       IF disp[d].pc = "done" THEN Complete(d) ELSE CanStep(d))
    /\ [][\A c \in ConnIds :
             Terminated(c) =>
                 /\ conns'[c] = conns[c]
                 /\ \A d \in DispIds : (disp'[d].conn = c) <=> (disp[d].conn = c)
                 /\ \A d \in TasksOf(c) : disp'[d].msg = disp[d].msg]_vars

C31_Witness ==
    \E c \in ConnIds : \E d, e \in TasksOf(c) :
        /\ Terminated(c) /\ conns[c].parsed = 2
        /\ d # e
        /\ disp[d].pc = "done" /\ disp[d].calls # {}
        /\ disp[e].pc = "start"

\* a call of Accept returns an error in this step
AcceptFails == lst'.fails > lst.fails

\* C32: an error of Accept is logged and changes nothing else: no handler
\* is spawned, no connection, task or counter changes, and the accept loop
\* is in its loop afterwards.  The loop never returns while the server
\* serves: after any number of failures Accept can return the next connection.
C32_AcceptFailureKeepsLoop ==
    /\ [](phase = "serving" =>
             /\ lst.loop = "accept"
             /\ wg >= 1
             /\ lst.fails > 0 => "failed to accept new connection" \in lst.errlog
             /\ (NumTasks < MaxTasks /\ NumConns < MaxConns) => ENABLED Accept)
    /\ [][AcceptFails =>
             /\ "failed to accept new connection" \in lst'.errlog
             /\ conns' = conns /\ disp' = disp /\ wg' = wg
             /\ phase' = "serving" /\ lst'.loop = "accept"]_vars
    /\ [][lst.loop = "accept" => lst'.loop = "accept"]_vars

C32_Witness ==
    /\ phase = "serving"
    /\ lst.fails > 0
    /\ lst.loop = "accept"
    /\ \E c \in ConnIds : conns[c].pc = "parse"
    /\ NumConns < MaxConns
    /\ ENABLED Accept

\* the handler of connection c sets the read deadline in this step
SetsDeadline(c) == conns[c].pc = "deadline" /\ conns'[c].pc = "parse"

\* the handler of connection c returns in this step on a failed SetDeadline
DeadlineFails(c) == conns[c].pc = "deadline" /\ conns'[c].pc = "done"

\* C33 (as claimed): a frame is parsed only after SetDeadline succeeded in
\* the same turn of the loop, the deadline set is the parse timeout of the
\* configuration the server holds at that moment (here: with no reload in
\* progress), and a handler whose SetDeadline fails returns without
\* parsing, the connection closed.
C33_FreshDeadlineBeforeEveryParse ==
    [][\A c \in ConnIds :
          /\ (SetsDeadline(c) /\ reload.pc = "idle") => conns'[c].deadline = conf.Timeout
          /\ (conns'[c].parsed # conns[c].parsed \/ conns'[c].bad # conns[c].bad)
                => (conns[c].pc = "parse" /\ conns[c].last = "")
          /\ DeadlineFails(c) =>
                /\ conns'[c].last = "deadline"
                /\ conns'[c].closes = 1
                /\ conns'[c].parsed = conns[c].parsed
                /\ disp' = disp]_vars

\* C34 (as claimed): when a step of the initialisation in RunWithListener
\* has failed (the creation of the PID file, the write of the PID, the
\* close of the file), RunWithListener has returned an error.
C34_InitFailureIsReturned ==
    lst.pid \in {"pidcreate", "pidwrite", "pidclose"} => lst.ret \notin {"none", NoErr}

\* a step of ReloadConfig: its first half or its second
ReloadSteps == reload'.n # reload.n \/ (reload.pc = "rules" /\ reload'.pc = "idle")

\* C35: a step of ReloadConfig changes the configuration and the ruleset of
\* the server and nothing else: the listener and its accept loop, the
\* parser and the logger made by New, the registry, the connections with
\* their handlers, the dispatch tasks, the WaitGroup and the files are as
\* before.
C35_ReloadReplacesConfAndRulesetOnly ==
    [][ReloadSteps =>
          /\ lst' = lst
          /\ start' = start
          /\ registry' = registry /\ fileAct' = fileAct
          /\ conns' = conns /\ disp' = disp /\ wg' = wg
          /\ files' = files /\ phase' = phase]_vars

C35_Witness ==
    /\ ReloadReadRules /\ reload.err = NoErr
    /\ conf # reload.preConf /\ ruleset # reload.preRuleset
    /\ start.parser = "rfc3164" /\ conf.ptype = "rfc5424"
    /\ start.log = "info" /\ conf.Level = "debug"
    /\ lst.loop = "accept" /\ lst.res.err = NoErr
    /\ \E c \in ConnIds : conns[c].pc = "parse" /\ conns[c].parsed = 1 /\ conns[c].closes = 0

\* C36: under fair scheduling of the dispatch tasks every task spawned for
\* a parsed message finishes: it has walked the whole rule list it loaded,
\* and the WaitGroup no longer counts it, whatever happens to its connection
\* and whatever SIGHUP does meanwhile.
C36_DispatchEventuallyFinishes ==
    \A d \in DispIds :
        (disp[d].pc # "none") ~>
            /\ disp[d].pc = "done"
            /\ disp[d].ri = Len(disp[d].rules) + 1
            /\ wg = RunningListen + Cardinality(RunningHandlers)
                                  + Cardinality(RunningDispatches)

C36_Witness ==
    \E d \in Finished :
        /\ disp[d].calls # {}
        /\ disp[d].rpc = "rules"
        /\ reload.pc = "idle" /\ reload.err = NoErr
        /\ conns[disp[d].conn].pc = "done"

\* C37: the listener NewListener returns for the TLS type is bound to the
\* address and port of the TLS section, and so not to those of the TCP
\* section when the two differ, whatever the two sections hold.
C37_TLSBindsTLSSection ==
    (lst.cfg.Type = ListenerTLS /\ lst.res.err = NoErr) =>
        /\ lst.res.bound = JoinHostPort(lst.cfg.TLS)
        /\ lst.cfg.TCP # lst.cfg.TLS => lst.res.bound # JoinHostPort(lst.cfg.TCP)

C37_Witness ==
    /\ lst.cfg.Type = ListenerTLS
    /\ lst.cfg.TCP.Addr # lst.cfg.TLS.Addr /\ lst.cfg.TCP.Port # lst.cfg.TLS.Port
    /\ lst.res.err = NoErr
    /\ lst.res.bound = "127.0.0.1:9100"
    /\ phase = "serving"

====
